---- MODULE Spec2Model ----
(***************************************************************************)
(* Model of FigmaScreenComponent                                           *)
(* (src/web_frontend/src/app/figma-screen/figma-screen.component.ts).      *)
(*                                                                         *)
(* Two parts:                                                              *)
(*  - the pure string functions extractBodyInnerHtml and rewriteAssetUrls, *)
(*    computed on markup strings;                                          *)
(*  - the mount/unmount lifecycle (ngOnInit / ngOnDestroy) of component    *)
(*    instances sharing one hosting document.                              *)
(*                                                                         *)
(* Markup strings are sequences of chunks.  A chunk is a piece of text     *)
(* (a TLA+ string); the string a sequence stands for is the concatenation  *)
(* of its chunks.  The chunk vocabulary is chosen so that every match of   *)
(* every regular expression of the component begins and ends on a chunk    *)
(* boundary, hence the regular expressions are computed chunk by chunk     *)
(* with JavaScript's semantics (leftmost match, lazy/greedy quantifiers,   *)
(* a global replace scanning left to right over the ORIGINAL string).      *)
(*                                                                         *)
(* The environment of the lifecycle is fixed when the application starts:  *)
(* whether it runs in a browser, whether the document has a head and a     *)
(* body, which elements the static shell already holds, and for which tags *)
(* the DOM throws when an element is to be created (as a content policy    *)
(* does); the try blocks of appendStylesheet / appendScript meet that      *)
(* exception after their duplicate check found nothing.                    *)
(***************************************************************************)
EXTENDS Integers, Sequences, FiniteSets, TLC

VARIABLES
    browser,      \* isPlatformBrowser(this.platformId)
    hasHead,      \* doc.head || doc.getElementsByTagName('head')[0] exists
    hasBody,      \* doc.body || doc.getElementsByTagName('body')[0] exists
    doc,          \* the element nodes attached to the hosting document
    life,         \* per component instance: "absent", "initializing", "mounted"
    step,         \* per instance: index of the next block of ngOnInit to run
    addedNodes,   \* per instance: this.addedNodes (sequence of nodes)
    htmlContent,  \* per instance: this.htmlContent (a markup string)
    raised,       \* per instance: an exception escaped ngOnInit
    threw,        \* history: a DOM operation threw during the instance's mount
    events,       \* history: the ensure/commit events of the instance's mount
    throwing,     \* the tags whose element the DOM refuses to create, by throwing
    html,         \* pure-function specifications: the input string
    out,          \* pure-function specifications: the last result
    stage         \* pure-function specifications: which function has been applied

vars == <<browser, hasHead, hasBody, doc, life, step, addedNodes, htmlContent,
          raised, threw, events, throwing, html, out, stage>>

appVars == <<browser, hasHead, hasBody, doc, life, step, addedNodes, htmlContent,
             raised, threw, events, throwing>>

pureVars == <<html, out, stage>>

----------------------------------------------------------------------------
(* Bounds *)

\* component instances that may be alive at once
NumInst == 2
\* longest input string (in chunks) of the extraction specification
MaxExtractLen == 4
\* longest input string (in chunks) of the rewriting specification
MaxRewriteLen == 4

----------------------------------------------------------------------------
(* Markup strings *)

\* the delimiter class ["'\(] of the rewriting regular expressions
Delim == {"\"", "'", "("}

\* the quote class ["'] of /(src|href)=["']assets\//
Quote == {"\"", "'"}

\* chunks whose text contains (and ends with) the character '>'
GtChunks == {">", "<body>", "</body>", "<BODY>", "</BODY>", "<script>", "</script>",
             "</SCRIPT>", "ipt>"}

\* <body[^>]*> under the flag i
BodyOpenTags == {"<body>", "<BODY>"}

\* <\/body> under the flag i
BodyCloseTags == {"</body>", "</BODY>"}

\* <\/script> under the flag i
ScriptCloseTags == {"</script>", "</SCRIPT>"}

\* the index of the last chunk of an occurrence of the text "<script" that begins
\* at chunk i of s, or 0 when none begins there
ScriptOpenEnd(s, i) ==
    IF s[i] \in {"<script>", "<script "} THEN i
    ELSE IF s[i] = "<scr" /\ i + 1 <= Len(s) /\ s[i + 1] = "ipt>" THEN i + 1
    ELSE 0

\* the least index j >= k with s[j] in S, or 0
FirstFrom(s, k, S) ==
    LET J == {j \in k..Len(s) : s[j] \in S}
    IN  IF J = {} THEN 0 ELSE CHOOSE j \in J : \A m \in J : j <= m

\* content.replace(/<script[\s\S]*?<\/script>/gi, ''), from chunk i on
RECURSIVE StripScriptsFrom(_, _)
StripScriptsFrom(s, i) ==
    IF i > Len(s) THEN <<>>
    ELSE LET e == ScriptOpenEnd(s, i)
             j == IF e = 0 THEN 0 ELSE FirstFrom(s, e + 1, ScriptCloseTags)
         IN  IF j # 0 THEN StripScriptsFrom(s, j + 1)
             ELSE <<s[i]>> \o StripScriptsFrom(s, i + 1)

StripScripts(s) == StripScriptsFrom(s, 1)

\* html.match(/<body[^>]*>([\s\S]*?)<\/body>/i): <<i, j>>, the chunks of the opening
\* and of the closing tag of the leftmost match, or <<0, 0>> when there is none
BodyMatch(s) ==
    LET i == FirstFrom(s, 1, BodyOpenTags)
        j == IF i = 0 THEN 0 ELSE FirstFrom(s, i + 1, BodyCloseTags)
    IN  IF j = 0 THEN <<0, 0>> ELSE <<i, j>>

\* bodyMatch[1], the captured group
BodyGroup(s) == SubSeq(s, BodyMatch(s)[1] + 1, BodyMatch(s)[2] - 1)

\* if (bodyMatch && bodyMatch[1]): a match whose group is a non-empty string
BodyMatchTruthy(s) == BodyMatch(s)[1] # 0 /\ BodyGroup(s) # <<>>

extractBodyInnerHtml(s) ==
    LET content == IF BodyMatchTruthy(s) THEN BodyGroup(s) ELSE s
    IN  StripScripts(content)

\* the companion file names of lines 411-414, in the order of the four replaces
CompanionFiles == <<"common.css", "spotify-1-0-3.css", "app.js", "spotify-1-0-3.js">>

\* '/assets/' followed by a companion file name (the replacement text of lines 411-414)
AssetPath(name) ==
    CASE name = "common.css" -> "/assets/common.css"
      [] name = "spotify-1-0-3.css" -> "/assets/spotify-1-0-3.css"
      [] name = "app.js" -> "/assets/app.js"
      [] name = "spotify-1-0-3.js" -> "/assets/spotify-1-0-3.js"

\* out.replace(/(["'\(])(?:\.\/)?figmaimages\//g, '$1/assets/figmaimages/'), from chunk i on
RECURSIVE RewriteFigmaFrom(_, _)
RewriteFigmaFrom(s, i) ==
    IF i > Len(s) THEN <<>>
    ELSE IF s[i] \in Delim /\ i + 1 <= Len(s) /\ s[i + 1] = "figmaimages/"
         THEN <<s[i], "/assets/figmaimages/">> \o RewriteFigmaFrom(s, i + 2)
    ELSE IF s[i] \in Delim /\ i + 2 <= Len(s) /\ s[i + 1] = "./" /\ s[i + 2] = "figmaimages/"
         THEN <<s[i], "/assets/figmaimages/">> \o RewriteFigmaFrom(s, i + 3)
    ELSE <<s[i]>> \o RewriteFigmaFrom(s, i + 1)

\* out.replace(/(["'\(])\.\/<name>/g, '$1/assets/<name>'), from chunk i on
RECURSIVE RewriteFileFrom(_, _, _)
RewriteFileFrom(s, name, i) ==
    IF i > Len(s) THEN <<>>
    ELSE IF s[i] \in Delim /\ i + 2 <= Len(s) /\ s[i + 1] = "./" /\ s[i + 2] = name
         THEN <<s[i], AssetPath(name)>> \o RewriteFileFrom(s, name, i + 3)
    ELSE <<s[i]>> \o RewriteFileFrom(s, name, i + 1)

\* out.replace(/(src|href)=["']assets\//g, '$1="/assets/'), from chunk i on
RECURSIVE RewriteAssetsPrefixFrom(_, _)
RewriteAssetsPrefixFrom(s, i) ==
    IF i > Len(s) THEN <<>>
    ELSE IF s[i] \in {"src=", "href="} /\ i + 2 <= Len(s) /\ s[i + 1] \in Quote
            /\ s[i + 2] = "assets/"
         THEN <<s[i], "\"", "/assets/">> \o RewriteAssetsPrefixFrom(s, i + 3)
    ELSE <<s[i]>> \o RewriteAssetsPrefixFrom(s, i + 1)

\* the index of the last chunk of an occurrence of <link[^>]+rel=["']?stylesheet["']?
\* that begins at chunk i of s, or 0 when none begins there
LinkOpenEnd(s, i) ==
    IF s[i] = "<link rel=stylesheet " THEN i
    ELSE IF s[i] = "<li" /\ i + 1 <= Len(s) /\ s[i + 1] = "nk rel=stylesheet " THEN i + 1
    ELSE 0

\* out.replace(/<link[^>]+rel=["']?stylesheet["']?[^>]*>/gi, ''), from chunk i on:
\* a match runs from "<link" to the first '>' after it
RECURSIVE StripLinksFrom(_, _)
StripLinksFrom(s, i) ==
    IF i > Len(s) THEN <<>>
    ELSE LET e == LinkOpenEnd(s, i)
             j == IF e = 0 THEN 0 ELSE FirstFrom(s, e + 1, GtChunks)
         IN  IF j # 0 THEN StripLinksFrom(s, j + 1)
             ELSE <<s[i]>> \o StripLinksFrom(s, i + 1)

rewriteAssetUrls(s) ==
    LET o1 == RewriteFigmaFrom(s, 1)
        o2 == RewriteFileFrom(o1, CompanionFiles[1], 1)
        o3 == RewriteFileFrom(o2, CompanionFiles[2], 1)
        o4 == RewriteFileFrom(o3, CompanionFiles[3], 1)
        o5 == RewriteFileFrom(o4, CompanionFiles[4], 1)
        o6 == RewriteAssetsPrefixFrom(o5, 1)
    IN  StripLinksFrom(o6, 1)

\* getSourceHtml(): the embedded document, chunk by chunk; "x" stands for the markup
\* between the places the regular expressions look at
getSourceHtml ==
    << " ", "x",
       "<link rel=stylesheet ", "href=", "\"", "./", "common.css", "\"", ">",
       "<link rel=stylesheet ", "href=", "\"", "./", "spotify-1-0-3.css", "\"", ">",
       "x", "<body>",
       "x", "src=", "\"", "./", "figmaimages/", "x", "\"", "x",
       "src=", "\"", "assets/", "figmaimages/", "x", "\"", "x",
       "<script ", "src=", "\"", "./", "app.js", "\"", ">", "</script>",
       "x", "</body>", "x", " " >>

----------------------------------------------------------------------------
(* The hosting document and the Resource Loader *)

\* component instances (slots: a destroyed instance's slot is taken by the next one)
Inst == 1 .. NumInst

\* the href / src each resource is ensured under: first the absolute reference, and
\* the relative one when the first call returned null (lines 47, 48, 59, 60)
StyleRefs == << <<"/assets/common.css", "assets/common.css">>,
                <<"/assets/spotify-1-0-3.css", "assets/spotify-1-0-3.css">> >>

ScriptRefs == << <<"/assets/app.js", "assets/app.js">>,
                 <<"/assets/spotify-1-0-3.js", "assets/spotify-1-0-3.js">> >>

\* elements the static shell (index.html) may already hold; by = 0: not created by
\* appendStylesheet / appendScript
ShellNodes ==
    { [tag |-> "link", ref |-> "/assets/common.css", parent |-> "head", by |-> 0, gen |-> 0],
      [tag |-> "script", ref |-> "/assets/app.js", parent |-> "body", by |-> 0, gen |-> 0],
      [tag |-> "link", ref |-> "/assets/spotify-1-0-3.css", parent |-> "body", by |-> 0,
       gen |-> 0],
      [tag |-> "link", ref |-> "assets/common.css", parent |-> "head", by |-> 0, gen |-> 0] }

\* mutant of isPlatformBrowser: the platform check is forgotten
isPlatformBrowserAlways == TRUE

isPlatformBrowser == browser

Range(q) == {q[k] : k \in 1 .. Len(q)}

\* the nodes some live reference still names
Tracked == UNION {Range(addedNodes[i]) : i \in Inst}

\* document.createElement: a new object, distinct from every node that is attached or
\* that a reference still names.  A node is told from the other nodes of its tag and
\* reference by its generation number gen (0: an element of the static shell).
FreshGen(d, tag, ref) ==
    LET taken == {n.gen : n \in {m \in d \cup Tracked : m.tag = tag /\ m.ref = ref}}
    IN  CHOOSE g \in 1 .. Cardinality(taken) + 1 :
            g \notin taken /\ \A k \in 1 .. g - 1 : k \in taken

\* no node
Null == [tag |-> "null"]

\* querySelector: the first match in document order (the oldest node), or Null
QuerySelector(matches) ==
    IF matches = {} THEN Null
    ELSE CHOOSE n \in matches : \A m \in matches : n.gen <= m.gen

\* the outcome of the body of a try block: the document, the value returned, whether
\* an exception leaves the block (exc) and how many were thrown (thrown)
Outcome(d, ret, exc) == [doc |-> d, ret |-> ret, exc |-> exc, thrown |-> IF exc THEN 1 ELSE 0]

\* mutant of TryCatch: the exception is rethrown instead of being swallowed
TryCatchRethrow(r) == r

\* try { ... } catch (err) { console.error(...); return null; }
TryCatch(r) == IF r.exc THEN [r EXCEPT !.ret = Null, !.exc = FALSE] ELSE r

\* mutant of AppendStylesheetBody: the duplicate check of lines 85-86 is missing
AppendStylesheetNoDedupe(d, href, by) ==
    IF ~hasHead THEN Outcome(d, Null, FALSE)
    ELSE IF "link" \in throwing THEN Outcome(d, Null, TRUE)
    ELSE LET link == [tag |-> "link", ref |-> href, parent |-> "head", by |-> by,
                      gen |-> FreshGen(d, "link", href)]
         IN  Outcome(d \cup {link}, link, FALSE)

\* the try block of appendStylesheet
AppendStylesheetBody(d, href, by) ==
    IF ~hasHead THEN Outcome(d, Null, FALSE)
    ELSE LET existing == QuerySelector({n \in d : n.tag = "link" /\ n.parent = "head"
                                                  /\ n.ref = href})
         IN  IF existing # Null THEN Outcome(d, existing, FALSE)
             ELSE IF "link" \in throwing THEN Outcome(d, Null, TRUE)
             ELSE LET link == [tag |-> "link", ref |-> href, parent |-> "head", by |-> by,
                               gen |-> FreshGen(d, "link", href)]
                  IN  Outcome(d \cup {link}, link, FALSE)

appendStylesheet(d, href, by) == TryCatch(AppendStylesheetBody(d, href, by))

\* mutant of AppendScriptBody: the duplicate check looks at every script node that is
\* still referenced, attached to the document or not (a cache of handles)
AppendScriptBodyCached(d, src, by) ==
    IF ~hasBody THEN Outcome(d, Null, FALSE)
    ELSE LET existing == QuerySelector({n \in d \cup Tracked : n.tag = "script" /\ n.ref = src})
         IN  IF existing # Null THEN Outcome(d, existing, FALSE)
             ELSE IF "script" \in throwing THEN Outcome(d, Null, TRUE)
             ELSE LET script == [tag |-> "script", ref |-> src, parent |-> "body", by |-> by,
                                 gen |-> FreshGen(d, "script", src)]
                  IN  Outcome(d \cup {script}, script, FALSE)

\* the try block of appendScript
AppendScriptBody(d, src, by) ==
    IF ~hasBody THEN Outcome(d, Null, FALSE)
    ELSE LET existing == QuerySelector({n \in d : n.tag = "script" /\ n.ref = src})
         IN  IF existing # Null THEN Outcome(d, existing, FALSE)
             ELSE IF "script" \in throwing THEN Outcome(d, Null, TRUE)
             ELSE LET script == [tag |-> "script", ref |-> src, parent |-> "body", by |-> by,
                                 gen |-> FreshGen(d, "script", src)]
                  IN  Outcome(d \cup {script}, script, FALSE)

appendScript(d, src, by) == TryCatch(AppendScriptBody(d, src, by))

AppendElement(tag, d, ref, by) ==
    IF tag = "link" THEN appendStylesheet(d, ref, by) ELSE appendScript(d, ref, by)

\* append(refs[1]) || append(refs[2]): the second call is made when the first one
\* returned null
Ensure(tag, d, refs, by) ==
    LET a == AppendElement(tag, d, refs[1], by)
    IN  IF a.exc \/ a.ret # Null THEN a
        ELSE LET b == AppendElement(tag, a.doc, refs[2], by)
             IN  [b EXCEPT !.thrown = a.thrown + b.thrown]

\* one guarded block of ngOnInit (lines 46-51 and 58-63): two resources are ensured,
\* then the non-null handles are pushed
EnsureBoth(tag, d, refs, by) ==
    LET r1 == Ensure(tag, d, refs[1], by)
        r2 == Ensure(tag, r1.doc, refs[2], by)
        h1 == IF r1.ret # Null THEN <<r1.ret>> ELSE <<>>
        h2 == IF r2.ret # Null THEN <<r2.ret>> ELSE <<>>
    IN  IF r1.exc THEN [doc |-> r1.doc, pushed |-> <<>>, exc |-> TRUE, thrown |-> r1.thrown]
        ELSE IF r2.exc
             THEN [doc |-> r2.doc, pushed |-> <<>>, exc |-> TRUE, thrown |-> r1.thrown + r2.thrown]
        ELSE [doc |-> r2.doc, pushed |-> h1 \o h2, exc |-> FALSE,
              thrown |-> r1.thrown + r2.thrown]

\* this.sanitizer.bypassSecurityTrustHtml(inlineHtml): the string wrapped as SafeHtml
bypassSecurityTrustHtml(s) == [safeHtml |-> s]

\* the markup a value of htmlContent renders ('' before the first commit)
Rendered(h) == IF h = <<>> THEN <<>> ELSE h.safeHtml

----------------------------------------------------------------------------
(* The Screen Controller: construction, ngOnInit, ngOnDestroy *)

\* mutant of InitOrder: the scripts are appended before the markup is committed
InitOrderScriptsFirst == <<"styles", "scripts", "markup">>

\* the blocks of ngOnInit in program order (lines 46-51, 54-55, 58-63)
InitOrder == <<"styles", "markup", "scripts">>

\* the hosting environment runs one handler at a time: no handler starts while an
\* ngOnInit is under way
Idle == \A j \in Inst : life[j] # "initializing"



\* after a block of ngOnInit: the next block, or the end of ngOnInit
Advance(i, exc) ==
    /\ raised' = [raised EXCEPT ![i] = exc]
    /\ IF exc \/ step[i] = Len(InitOrder)
       THEN life' = [life EXCEPT ![i] = "mounted"] /\ step' = [step EXCEPT ![i] = 0]
       ELSE life' = life /\ step' = [step EXCEPT ![i] = step[i] + 1]

\* a component instance is created: the field initialisers of lines 39 and 42
Construct(i) ==
    /\ Idle
    /\ life[i] = "absent"
    /\ life' = [life EXCEPT ![i] = "initializing"]
    /\ step' = [step EXCEPT ![i] = 1]
    /\ addedNodes' = [addedNodes EXCEPT ![i] = <<>>]
    /\ htmlContent' = [htmlContent EXCEPT ![i] = <<>>]
    /\ raised' = [raised EXCEPT ![i] = FALSE]
    /\ threw' = [threw EXCEPT ![i] = FALSE]
    /\ events' = [events EXCEPT ![i] = <<>>]
    /\ UNCHANGED <<browser, hasHead, hasBody, doc, throwing, html, out, stage>>

\* a block of ngOnInit that ensures two resources
EnsureBlock(i, tag, refs, ev) ==
    IF isPlatformBrowser
    THEN \E r \in {EnsureBoth(tag, doc, refs, i)} :
               /\ doc' = r.doc
               /\ addedNodes' = [addedNodes EXCEPT ![i] = addedNodes[i] \o r.pushed]
               /\ threw' = [threw EXCEPT ![i] = threw[i] \/ r.thrown > 0]
               /\ events' = [events EXCEPT ![i] = events[i] \o <<ev, ev>>]
               /\ Advance(i, r.exc)
    ELSE /\ UNCHANGED <<doc, addedNodes, threw, events>>
         /\ Advance(i, FALSE)

\* ngOnInit, lines 46-51
NgOnInitStyles(i) ==
    /\ life[i] = "initializing"
    /\ InitOrder[step[i]] = "styles"
    /\ EnsureBlock(i, "link", StyleRefs, "css")
    /\ UNCHANGED <<browser, hasHead, hasBody, htmlContent, throwing, html, out, stage>>

\* ngOnInit, lines 54-55
NgOnInitMarkup(i) ==
    /\ life[i] = "initializing"
    /\ InitOrder[step[i]] = "markup"
    /\ LET inlineHtml == rewriteAssetUrls(extractBodyInnerHtml(getSourceHtml))
       IN  htmlContent' = [htmlContent EXCEPT ![i] = bypassSecurityTrustHtml(inlineHtml)]
    /\ events' = [events EXCEPT ![i] = events[i] \o <<"html">>]
    /\ Advance(i, FALSE)
    /\ UNCHANGED <<browser, hasHead, hasBody, doc, addedNodes, threw, throwing, html, out,
                   stage>>

\* ngOnInit, lines 58-63
NgOnInitScripts(i) ==
    /\ life[i] = "initializing"
    /\ InitOrder[step[i]] = "scripts"
    /\ EnsureBlock(i, "script", ScriptRefs, "js")
    /\ UNCHANGED <<browser, hasHead, hasBody, htmlContent, throwing, html, out, stage>>

\* the nodes ngOnDestroy removes: node.remove() for every tracked node
RemovedBy(i) == doc \cap Range(addedNodes[i])

ngOnDestroy(i) ==
    /\ Idle
    /\ life[i] = "mounted"
    /\ life' = [life EXCEPT ![i] = "absent"]
    /\ IF ~isPlatformBrowser
       THEN UNCHANGED <<doc, addedNodes>>
       ELSE /\ doc' = doc \ RemovedBy(i)
            /\ addedNodes' = [addedNodes EXCEPT ![i] = <<>>]
    /\ UNCHANGED <<browser, hasHead, hasBody, step, htmlContent, raised, threw, events,
                   throwing, html, out, stage>>

\* the pure-function variables while the lifecycle runs
PureIdle == html = <<>> /\ out = <<>> /\ stage = "app"

Init ==
    /\ browser \in BOOLEAN
    /\ hasHead \in BOOLEAN
    /\ hasBody \in BOOLEAN
    /\ doc \in SUBSET {n \in ShellNodes : IF n.parent = "head" THEN hasHead ELSE hasBody}
    /\ life = [i \in Inst |-> "absent"]
    /\ step = [i \in Inst |-> 0]
    /\ addedNodes = [i \in Inst |-> <<>>]
    /\ htmlContent = [i \in Inst |-> <<>>]
    /\ raised = [i \in Inst |-> FALSE]
    /\ threw = [i \in Inst |-> FALSE]
    /\ events = [i \in Inst |-> <<>>]
    /\ throwing \in SUBSET {"link", "script"}
    /\ PureIdle

Next ==
    \E i \in Inst :
        \/ Construct(i)
        \/ NgOnInitStyles(i)
        \/ NgOnInitMarkup(i)
        \/ NgOnInitScripts(i)
        \/ ngOnDestroy(i)

Spec == Init /\ [][Next]_vars

----------------------------------------------------------------------------
(* The pure functions on bounded inputs *)

\* the lifecycle variables while a pure function is applied: no component instance
AppIdle ==
    /\ browser = FALSE
    /\ hasHead = FALSE
    /\ hasBody = FALSE
    /\ throwing = {}
    /\ doc = {}
    /\ life = [i \in Inst |-> "absent"]
    /\ step = [i \in Inst |-> 0]
    /\ addedNodes = [i \in Inst |-> <<>>]
    /\ htmlContent = [i \in Inst |-> <<>>]
    /\ raised = [i \in Inst |-> FALSE]
    /\ threw = [i \in Inst |-> FALSE]
    /\ events = [i \in Inst |-> <<>>]

\* the strings of at most n chunks over the vocabulary A
Strings(A, n) == UNION {[1 .. k -> A] : k \in 0 .. n}

\* the vocabulary of the documents given to extractBodyInnerHtml: " " is white space,
\* "x" any other text; "<scr" followed by "ipt>" reads "<script>"
ExtractChunks == {"<body>", "</body>", "<script>", "</script>", "<scr", "ipt>", "x", " "}

\* the vocabulary of the markup given to rewriteAssetUrls; "<li" followed by
\* "nk rel=stylesheet " reads "<link rel=stylesheet "
RewriteChunks == {"\"", "'", "./", "figmaimages/", "common.css", "href=", "assets/",
                  "<link rel=stylesheet ", ">", "<li", "nk rel=stylesheet ", "x"}

ExtractInit ==
    /\ AppIdle
    /\ html \in Strings(ExtractChunks, MaxExtractLen)
    /\ out = <<>>
    /\ stage = "input"

\* extractBodyInnerHtml applied to a document (line 54, the inner call)
Extract ==
    /\ stage = "input"
    /\ out' = extractBodyInnerHtml(html)
    /\ stage' = "extracted"
    /\ UNCHANGED <<html, appVars>>

\* rewriteAssetUrls applied to the extracted markup, the result being what htmlContent
\* renders (lines 54-55)
Commit ==
    /\ stage = "extracted"
    /\ out' = Rendered(bypassSecurityTrustHtml(rewriteAssetUrls(out)))
    /\ stage' = "committed"
    /\ UNCHANGED <<html, appVars>>

ExtractNext == Extract \/ Commit

ExtractSpec == ExtractInit /\ [][ExtractNext]_vars

RewriteInit ==
    /\ AppIdle
    /\ html \in Strings(RewriteChunks, MaxRewriteLen)
    /\ out = <<>>
    /\ stage = "input"

\* rewriteAssetUrls applied to the input
RewriteOnce ==
    /\ stage = "input"
    /\ out' = rewriteAssetUrls(html)
    /\ stage' = "once"
    /\ UNCHANGED <<html, appVars>>

\* rewriteAssetUrls applied to its own result
RewriteTwice ==
    /\ stage = "once"
    /\ out' = rewriteAssetUrls(out)
    /\ stage' = "twice"
    /\ UNCHANGED <<html, appVars>>

RewriteNext == RewriteOnce \/ RewriteTwice

RewriteSpec == RewriteInit /\ [][RewriteNext]_vars

----------------------------------------------------------------------------
(* Properties of the lifecycle (specification Spec) *)

\* the nodes of the document that instance i created
CreatedBy(i) == {n \in doc : n.by = i}

\* the four companion resources, by tag and absolute reference
Companions ==
    {<<"link", StyleRefs[1][1]>>, <<"link", StyleRefs[2][1]>>,
     <<"script", ScriptRefs[1][1]>>, <<"script", ScriptRefs[2][1]>>}

Present(d, c) == \E n \in d : n.tag = c[1] /\ n.ref = c[2]

\* C1: in a browser, ngOnDestroy removes exactly the elements that this mount created:
\* every element it created and no element that it found already present.
C1_RemovedIffCreated ==
    [][\A i \in Inst :
          (browser /\ life[i] = "mounted" /\ life'[i] = "absent")
              => (doc \ doc') = CreatedBy(i)]_vars

\* C2: the document never holds two elements of the same tag and reference that
\* appendStylesheet / appendScript created, and no created element repeats an element
\* that its duplicate check looks at (a link of the head, a script anywhere).
C2_NoDuplicateResource ==
    \A n, m \in doc :
        (n # m /\ n.tag = m.tag /\ n.ref = m.ref /\ n.by # 0)
            => (m.by = 0 /\ n.tag = "link" /\ m.parent # "head")

\* C2 witness: every instance is mounted, one of them found a resource of the static
\* shell instead of creating it, and a remount has created an element a second time.
C2_Witness ==
    /\ \A i \in Inst : life[i] = "mounted"
    /\ \E i \in Inst : \E h \in Range(addedNodes[i]) : h.by = 0
    /\ \E n \in doc : n.gen >= 2

\* the ensure and commit events of a whole mount in a browser
BrowserMount == <<"css", "css", "html", "js", "js">>

\* C3: in a browser the events of a mount come in the order: both stylesheets ensured,
\* markup committed, both scripts ensured; htmlContent is assigned exactly when the
\* commit event has happened, and no script element of the document was created by a
\* mount whose markup is not committed.
C3_MountOrder ==
    \A i \in Inst :
        /\ browser =>
              /\ Len(events[i]) <= Len(BrowserMount)
              /\ events[i] = SubSeq(BrowserMount, 1, Len(events[i]))
              /\ life[i] = "mounted" => events[i] = BrowserMount
              /\ ("html" \in Range(events[i])) <=> (Rendered(htmlContent[i]) # <<>>)
        /\ \A n \in CreatedBy(i) : n.tag = "script" => Rendered(htmlContent[i]) # <<>>

\* C3 witness: a mount in a browser has run to its end and created a script element.
C3_Witness ==
    \E i \in Inst :
        /\ browser /\ life[i] = "mounted" /\ events[i] = BrowserMount
        /\ \E n \in CreatedBy(i) : n.tag = "script"

C5_ServerNoDomMutation ==
    [][~browser => (doc' = doc /\ \A i \in Inst : addedNodes'[i] = <<>>)]_vars

\* C5 witness: outside a browser an instance was mounted and destroyed again, over a
\* document that holds elements; its htmlContent was written.
C5_Witness ==
    /\ ~browser
    /\ doc # {}
    /\ \E i \in Inst : life[i] = "absent" /\ Rendered(htmlContent[i]) # <<>>

\* C6: no exception leaves ngOnInit; a resource that could not be ensured (no head, no
\* body, a throwing DOM operation) leaves no handle in addedNodes; a completed mount
\* has non-empty markup in htmlContent.
C6_MountNeverRaises ==
    \A i \in Inst :
        /\ ~raised[i]
        /\ life[i] = "mounted" => Rendered(htmlContent[i]) # <<>>
        /\ \A h \in Range(addedNodes[i]) :
              /\ h # Null
              /\ h.tag = "link" => hasHead
              /\ h.tag = "script" => hasBody
              /\ h.by = i => h.tag \notin throwing

\* C6 witness: a mount completed in a browser without a head in which a DOM operation
\* threw.
C6_Witness ==
    \E i \in Inst :
        /\ browser /\ ~hasHead /\ threw[i] /\ life[i] = "mounted"
        /\ Rendered(htmlContent[i]) # <<>>

\* C11: while an instance is mounted in a browser, every resource element it ensured
\* (every handle of its addedNodes) stays in the document, whatever the other
\* instances mount or unmount meanwhile.
C11_MountedKeepsResources ==
    \A i \in Inst :
        (browser /\ life[i] = "mounted")
            => \A h \in Range(addedNodes[i]) : h \in doc

----------------------------------------------------------------------------
(* Properties of the pure functions (specifications ExtractSpec and RewriteSpec) *)

\* the string is empty or white space only
Blank(s) == \A k \in 1 .. Len(s) : s[k] = " "

\* the string contains the text "<script"
HasScriptOpen(s) == \E k \in 1 .. Len(s) : ScriptOpenEnd(s, k) # 0

C8_RewriteIdempotent ==
    stage = "twice" => out = rewriteAssetUrls(html)

\* C9: the result of extractBodyInnerHtml on a document that contains "<script" does
\* not contain "<script".
C9_NoScriptAfterExtract ==
    (stage = "extracted" /\ HasScriptOpen(html)) => ~HasScriptOpen(out)

\* C10: on a document without scripts, extractBodyInnerHtml returns the inner content
\* of the body region when there is one (an empty region included), and the document
\* unchanged when there is none.
C10_ExtractReturnsBodyRegion ==
    (stage = "extracted" /\ ~HasScriptOpen(html))
        => out = IF BodyMatch(html)[1] # 0 THEN BodyGroup(html) ELSE html

====
